---- MODULE Spec2Model ----
(***************************************************************************)
(* Model of the KhloesKicks sneaker auction site: the bid handler, the     *)
(* auction lifecycle routes and the carrier rate aggregator.               *)
(*                                                                         *)
(* The repository carries two revisions of the server: the SQLite one      *)
(* (server.js, synchronous handlers, bid increment 100) and the PostgreSQL *)
(* one (async handlers, every await a suspension point, bid increment 5).  *)
(* The variable `server` says which revision is deployed.                  *)
(***************************************************************************)
EXTENDS Integers, Sequences, FiniteSets, TLC

VARIABLES
    server,     \* "sqlite" or "pg": the deployed revision
    now,        \* wall clock (dayjs()), in days
    auctions,   \* table auctions: sequence of rows, the id is the index
    bids,       \* table bids: sequence of rows in insertion order
    req,        \* pg, per session user: the bid request between its awaits
    resp,       \* the validation sequence applied to one request: its inputs and its decision
    apiReq,     \* pg: product id of the POST /api/auctions request between its awaits, 0 if none
    configured, \* carriers whose credentials are set (isConfigured())
    ratesPc,    \* getAllRates: "idle", "loop", "done", or "threw" when it rejects
    carrierIdx, \* getAllRates: position in the carriers list
    allRates,   \* getAllRates: the accumulated rates
    called,     \* getAllRates: per carrier, how its getRates call ended ("none" if not called)
    returned,   \* getAllRates: per carrier, the list its getRates call resolved with
    ratesResult, \* getAllRates: the list returned by the current call, <<>> until it returns
    shipPc,     \* createOptimalShipment: "idle", "rates", "label", "done" or "failed"
    quotes,     \* getBestRate: the list its await of getAllRates resolved with
    prefs,      \* createOptimalShipment: the preferences argument
    bestRate,   \* createOptimalShipment: the rate getBestRate returned
    labelCalls, \* createOptimalShipment: the adapter createShippingLabel calls made, in order
    shipError,  \* createOptimalShipment: the error it rejected with, "none" if none
    clock,      \* Date.now(), in seconds
    accessToken, \* adapter: this.accessToken, 0 when unset; tokens are numbered as issued
    tokenExpiry, \* adapter: this.tokenExpiry, 0 when unset
    authPc,     \* per caller of authenticate: where it is ("idle", "fetching", "responded") and the token in its response
    issued,     \* the provider's tokens in order of issue: when issued and with which TTL
    authEvent,  \* what the last step of an authenticate call did
    paid,       \* table orders: the ids of the orders with status 'paid'
    shipments,  \* table shipments: sequence of rows, the id is the index
    autoTasks,  \* pg: the autoGenerateShippingLabel runs scheduled by the webhook
    bulkPc,     \* pg, per order: POST /admin/shipping/bulk between its check and its insert
    detailsArgs, \* buildShipmentDetails: the arguments of the call (product name, addresses, options)
    details,    \* buildShipmentDetails: what the call returned or threw, NoDetails before it ran
    recRates,   \* getServiceRecommendations: the rates argument
    recPc,      \* getServiceRecommendations: "idle" or "returned"
    recommendations, \* getServiceRecommendations: the list returned, each pick with the position of its rate in the argument
    tx,         \* per caller of transaction(callback): where the call is, what it issued and how it ended
    dbQuery     \* the call of query(): where it is, its attempt counter, what it issued and how it ended

vars == <<server, now, auctions, bids, req, resp, apiReq,
          configured, ratesPc, carrierIdx, allRates, called, returned, ratesResult,
          shipPc, quotes, prefs, bestRate, labelCalls, shipError,
          clock, accessToken, tokenExpiry, authPc, issued, authEvent,
          paid, shipments, autoTasks, bulkPc,
          detailsArgs, details,
          recRates, recPc, recommendations,
          tx, dbQuery>>

auctionVars == <<server, now, auctions, bids, req, resp, apiReq>>

ratesVars == <<configured, ratesPc, carrierIdx, allRates, called, returned, ratesResult>>

shipVars == <<shipPc, quotes, prefs, bestRate, labelCalls, shipError>>

tokenVars == <<clock, accessToken, tokenExpiry, authPc, issued, authEvent>>

orderVars == <<paid, shipments, autoTasks, bulkPc>>

detailsVars == <<detailsArgs, details>>

recVars == <<recRates, recPc, recommendations>>

dbVars == <<tx, dbQuery>>

\* What the handlers of one component leave alone.
notAuctionVars == <<ratesVars, shipVars, tokenVars, orderVars, detailsVars, recVars, dbVars>>
notRatesVars == <<auctionVars, shipVars, tokenVars, orderVars, detailsVars, recVars, dbVars>>
notShipVars == <<auctionVars, ratesVars, tokenVars, orderVars, detailsVars, recVars, dbVars>>
notTokenVars == <<auctionVars, ratesVars, shipVars, orderVars, detailsVars, recVars, dbVars>>
notOrderVars == <<now, auctions, bids, req, resp, apiReq, ratesVars, shipVars, tokenVars, detailsVars, recVars, dbVars>>
notDetailsVars == <<auctionVars, ratesVars, shipVars, tokenVars, orderVars, recVars, dbVars>>
notRecVars == <<auctionVars, ratesVars, shipVars, tokenVars, orderVars, detailsVars, dbVars>>
notDbVars == <<auctionVars, ratesVars, shipVars, tokenVars, orderVars, detailsVars, recVars>>

-----------------------------------------------------------------------------
(* Bounds *)

MaxTime == 10
MaxAuctions == 2
MaxBids == 2
MaxUsers == 2
MaxProducts == 1
MaxSteps == 2
MaxRates == 2
MaxCost == 2
MaxQuotes == 1
MaxDays == 2
MaxCallers == 3
MaxTicks == 5
MaxTokens == 3
MaxOrders == 2
MaxShipments == 3
MaxTasks == 2
MaxRecRates == 3
MaxTx == 2
MaxRetries == 3

-----------------------------------------------------------------------------
(* Program constants *)

IncrementSqlite == 100
IncrementPg == 5
AuctionDays == 10

NULL == -1

Users == 1..MaxUsers
Carriers == {"fedex", "ups"}
Products == 1..MaxProducts

Increment == IF server = "sqlite" THEN IncrementSqlite ELSE IncrementPg

Max(a, b) == IF a >= b THEN a ELSE b

\* The amounts a bidder may submit: multiples of the increment, one below
\* each multiple, and the half-way points (off-increment amounts).
AmountInputs == {0} \cup {k * Increment + o : k \in 1..MaxSteps, o \in {-1, 0, Increment \div 2}}

\* The starting bids an admin may submit.
StartingBidInputs == {0, Increment \div 2}

\* The durations (days) an admin may submit to POST /api/auctions.
DurationInputs == {-1, AuctionDays}

NoAuction == [product_id |-> 0, start_time |-> 0, end_time |-> 0, starting_bid |-> 0,
              current_bid |-> NULL, current_bid_user_id |-> NULL, status |-> "none"]

IdleReq == [pc |-> "idle", id |-> 0, amt |-> 0, snap |-> NoAuction]

NoResp == [amt |-> 0, snap |-> NoAuction, at |-> 0, result |-> "none"]

-----------------------------------------------------------------------------
(* The bid handler's checks *)

\* const min = Math.max(auction.starting_bid, auction.current_bid || 0) + increment
MinNextBid(a, inc) ==
    Max(a.starting_bid, IF a.current_bid = NULL THEN 0 ELSE a.current_bid) + inc

\* The validation sequence of POST /auction/:id/bid on the loaded row a, the
\* submitted amount amt and the clock t.
BidDecision(a, amt, t, inc) ==
    IF a.end_time < t \/ a.status # "open" THEN "Auction ended"
    ELSE IF amt <= 0 THEN "Invalid amount"
    ELSE IF amt % inc # 0 THEN "Bad increment"
    ELSE IF amt < MinNextBid(a, inc) THEN "Below minimum"
    ELSE "Accepted"

\* SELECT * FROM auctions WHERE id = ?
GetAuction(id) == IF id \in DOMAIN auctions THEN auctions[id] ELSE NoAuction

\* INSERT INTO bids (auction_id, user_id, amount, created_at)
InsertBid(id, u, amt) == Append(bids, [auction_id |-> id, user_id |-> u, amount |-> amt])

\* UPDATE auctions SET current_bid = ?, current_bid_user_id = ? WHERE id = ?
UpdateCurrentBid(id, u, amt) ==
    [i \in DOMAIN auctions |->
        IF i = id THEN [auctions[i] EXCEPT !.current_bid = amt, !.current_bid_user_id = u]
        ELSE auctions[i]]

-----------------------------------------------------------------------------
(* Initial state *)

InitAuctionVars ==
    /\ now = 0
    /\ auctions = <<>>
    /\ bids = <<>>
    /\ req = [u \in Users |-> IdleReq]
    /\ resp = NoResp
    /\ apiReq = 0

InitRatesVars ==
    /\ ratesPc = "idle"
    /\ carrierIdx = 0
    /\ allRates = <<>>
    /\ called = [c \in Carriers |-> "none"]
    /\ returned = [c \in Carriers |-> <<>>]
    /\ ratesResult = <<>>

NoPrefs == [maxCost |-> NULL, maxTransitDays |-> NULL, preferredCarrier |-> "none"]

NoRate == [carrier |-> "none", service |-> 0, cost |-> 0, transitTime |-> 0]

InitShipVars ==
    /\ shipPc = "idle"
    /\ quotes = <<>>
    /\ prefs = NoPrefs
    /\ bestRate = NoRate
    /\ labelCalls = <<>>
    /\ shipError = "none"

NoAuthEvent == [kind |-> "none", caller |-> 0, token |-> 0]

InitTokenVars ==
    /\ clock = 0
    /\ accessToken = 0
    /\ tokenExpiry = 0
    /\ authPc = [k \in 1..MaxCallers |-> [pc |-> "idle", token |-> 0]]
    /\ issued = <<>>
    /\ authEvent = NoAuthEvent

InitOrderVars ==
    /\ paid = {}
    /\ shipments = <<>>
    /\ autoTasks = <<>>
    /\ bulkPc = [o \in 1..MaxOrders |-> "idle"]

NoAddress == [name |-> "", line1 |-> "", city |-> "", state |-> "", zip |-> <<>>, country |-> ""]

NoOptions == [keys |-> {}, weight |-> 0, international |-> FALSE, toAddress |-> NoAddress]

NoDetailsArgs == [product |-> "", fromAddress |-> NoAddress, toAddress |-> NoAddress, options |-> NoOptions]

NoDetails == [error |-> "not called", fromAddress |-> NoAddress, toAddress |-> NoAddress,
              weight |-> 0, international |-> FALSE]

InitDetailsVars ==
    /\ detailsArgs = NoDetailsArgs
    /\ details = NoDetails

InitRecVars ==
    /\ recRates = <<>>
    /\ recPc = "idle"
    /\ recommendations = <<>>

\* A call of transaction(callback) before it runs: cb is how the callback
\* ended ("none" while it has not), log the statements issued on the client
\* and connect/release on the pool, error what the call rejects with.
IdleTx == [pc |-> "idle", cb |-> "none", log |-> <<>>, error |-> "none"]

NoError == [code |-> "none", connection |-> FALSE]

\* A call of query(text, params, maxRetries) before it runs.
IdleQuery == [pc |-> "idle", maxRetries |-> 0, attempt |-> 0, lastError |-> NoError,
              log |-> <<>>, error |-> NoError]

InitDbVars ==
    /\ tx = [k \in 1..MaxTx |-> IdleTx]
    /\ dbQuery = IdleQuery

InitAuction ==
    /\ server \in {"sqlite", "pg"}
    /\ InitAuctionVars
    /\ configured = {}
    /\ InitRatesVars
    /\ InitShipVars
    /\ InitTokenVars
    /\ InitOrderVars
    /\ InitDetailsVars
    /\ InitRecVars
    /\ InitDbVars

-----------------------------------------------------------------------------
(* Time *)

\* Time passes up to the end time of an auction, or to the instant after it.
Tick ==
    /\ \E i \in DOMAIN auctions, o \in {0, 1} :
        /\ auctions[i].end_time + o > now
        /\ auctions[i].end_time + o <= MaxTime
        /\ now' = auctions[i].end_time + o
    /\ resp' = NoResp
    /\ UNCHANGED <<server, auctions, bids, req, apiReq>>
    /\ UNCHANGED notAuctionVars

-----------------------------------------------------------------------------
(* POST /admin/auctions and POST /api/auctions *)

NewAuction(p, start, days, sb) ==
    [product_id |-> p, start_time |-> start, end_time |-> start + days, starting_bid |-> sb,
     current_bid |-> NULL, current_bid_user_id |-> NULL, status |-> "open"]

\* SELECT * FROM auctions WHERE product_id = $1 AND status = 'open'
HasOpenAuction(p) ==
    \E i \in DOMAIN auctions : auctions[i].product_id = p /\ auctions[i].status = "open"

\* Both revisions: the product is looked up, then the row is inserted with
\* Number(starting_bid || 0) and a fixed duration of 10 days.
AdminCreateAuction(p, sb) ==
    /\ p \in Products
    /\ Len(auctions) < MaxAuctions
    /\ auctions' = Append(auctions, NewAuction(p, now, AuctionDays, sb))
    /\ resp' = NoResp
    /\ UNCHANGED <<server, now, bids, req, apiReq>>
    /\ UNCHANGED notAuctionVars

\* pg: the part of POST /api/auctions up to the open-auction lookup.
PgApiCreateCheck(p) ==
    /\ server = "pg"
    /\ apiReq = 0
    /\ p \in Products
    /\ ~HasOpenAuction(p)
    /\ Len(auctions) < MaxAuctions
    /\ apiReq' = p
    /\ resp' = NoResp
    /\ UNCHANGED <<server, now, auctions, bids, req>>
    /\ UNCHANGED notAuctionVars

\* pg: the rest of POST /api/auctions, start = dayjs() and the INSERT of
\* startingBid = Number(starting_bid), durationDays = Number(duration); a
\* request with a falsy starting_bid was answered 400 before the lookups.
PgApiCreateInsert(sb, days) ==
    /\ server = "pg"
    /\ apiReq # 0
    /\ sb # 0
    /\ Len(auctions) < MaxAuctions
    /\ auctions' = Append(auctions, NewAuction(apiReq, now, days, sb))
    /\ apiReq' = 0
    /\ resp' = NoResp
    /\ UNCHANGED <<server, now, bids, req>>
    /\ UNCHANGED notAuctionVars

-----------------------------------------------------------------------------
(* POST /auction/:id/bid *)

\* What was decided on a bid of amt, validated at time t against the row a.
Decided(amt, a, t, inc) ==
    [amt |-> amt, snap |-> a, at |-> t, result |-> BidDecision(a, amt, t, inc)]

\* sqlite: the handler is synchronous and the two writes run in db.transaction,
\* which rolls both back when one of them throws.
SqliteBidHandler(u, id, amt) ==
    /\ server = "sqlite"
    /\ id \in DOMAIN auctions
    /\ LET a == GetAuction(id)
           d == BidDecision(a, amt, now, Increment)
       IN  IF d = "Accepted"
           THEN /\ Len(bids) < MaxBids
                /\ \E ok \in BOOLEAN :
                     IF ok
                     THEN /\ bids' = InsertBid(id, u, amt)
                          /\ auctions' = UpdateCurrentBid(id, u, amt)
                     ELSE UNCHANGED <<bids, auctions>>
           ELSE UNCHANGED <<bids, auctions>>
    /\ UNCHANGED <<server, now, req, apiReq>>
    /\ UNCHANGED notAuctionVars

SqliteBid(u, id, amt) ==
    /\ SqliteBidHandler(u, id, amt)
    /\ resp' = NoResp

\* The same handler, with its decision on the request kept in resp.
SqliteBidObserved(u, id, amt) ==
    /\ SqliteBidHandler(u, id, amt)
    /\ resp' = Decided(amt, GetAuction(id), now, Increment)

\* pg: await prepare('SELECT * FROM auctions WHERE id = $1').get([id])
PgBidLoad(u, id) ==
    /\ server = "pg"
    /\ req[u].pc = "idle"
    /\ id \in DOMAIN auctions
    /\ req' = [req EXCEPT ![u] = [pc |-> "loaded", id |-> id, amt |-> 0, snap |-> GetAuction(id)]]
    /\ resp' = NoResp
    /\ UNCHANGED <<server, now, auctions, bids, apiReq>>
    /\ UNCHANGED notAuctionVars

\* The checks with the INSERT of the bid row issued ahead of them.
PgBidChecksAfterInsert(u, amt) ==
    /\ server = "pg"
    /\ req[u].pc = "loaded"
    /\ Len(bids) < MaxBids
    /\ bids' = InsertBid(req[u].id, u, amt)
    /\ LET d == BidDecision(req[u].snap, amt, now, Increment)
       IN  req' = [req EXCEPT ![u] = IF d = "Accepted"
                                     THEN [req[u] EXCEPT !.pc = "inserted", !.amt = amt]
                                     ELSE IdleReq]
    /\ UNCHANGED <<server, now, auctions, apiReq>>
    /\ UNCHANGED notAuctionVars

\* pg: now = dayjs(), amt = Number(amount) and the checks, on the row loaded before.
PgBidChecks(u, amt) ==
    /\ server = "pg"
    /\ req[u].pc = "loaded"
    /\ LET d == BidDecision(req[u].snap, amt, now, Increment)
       IN  req' = [req EXCEPT ![u] = IF d = "Accepted"
                                     THEN [req[u] EXCEPT !.pc = "validated", !.amt = amt]
                                     ELSE IdleReq]
    /\ UNCHANGED <<server, now, auctions, bids, apiReq>>
    /\ UNCHANGED notAuctionVars

PgBidValidate(u, amt) ==
    /\ PgBidChecks(u, amt)
    /\ resp' = NoResp

\* The same step, with its decision on the request kept in resp.
PgBidValidateObserved(u, amt) ==
    /\ PgBidChecks(u, amt)
    /\ resp' = Decided(amt, req[u].snap, now, Increment)

\* pg: await query('INSERT INTO bids ...'); a throw leaves the handler in catch.
PgBidInsert(u) ==
    /\ server = "pg"
    /\ req[u].pc = "validated"
    /\ Len(bids) < MaxBids
    /\ \E ok \in BOOLEAN :
        IF ok
        THEN /\ bids' = InsertBid(req[u].id, u, req[u].amt)
             /\ req' = [req EXCEPT ![u].pc = "inserted", ![u].snap = NoAuction]
        ELSE /\ req' = [req EXCEPT ![u] = IdleReq]
             /\ UNCHANGED bids
    /\ resp' = NoResp
    /\ UNCHANGED <<server, now, auctions, apiReq>>
    /\ UNCHANGED notAuctionVars

\* pg: await query('UPDATE auctions SET current_bid ...'), then the redirect;
\* a throw leaves the handler in catch with the bid row already inserted.
PgBidUpdate(u) ==
    /\ server = "pg"
    /\ req[u].pc = "inserted"
    /\ \E ok \in BOOLEAN :
        IF ok
        THEN auctions' = UpdateCurrentBid(req[u].id, u, req[u].amt)
        ELSE UNCHANGED auctions
    /\ req' = [req EXCEPT ![u] = IdleReq]
    /\ resp' = NoResp
    /\ UNCHANGED <<server, now, bids, apiReq>>
    /\ UNCHANGED notAuctionVars

-----------------------------------------------------------------------------
(* POST /api/auctions/:id/end and POST /api/products/:id/sold-out (pg) *)

\* UPDATE auctions SET status = 'ended' WHERE id = $2
EndAuctionUpdate(id) ==
    [i \in DOMAIN auctions |->
        IF i = id THEN [auctions[i] EXCEPT !.status = "ended"] ELSE auctions[i]]

\* The sold-out UPDATE with its 'ended' and 'open' parameters exchanged.
SoldOutUpdateSwapped(p) ==
    [i \in DOMAIN auctions |->
        IF auctions[i].product_id = p /\ auctions[i].status = "ended"
        THEN [auctions[i] EXCEPT !.status = "open"]
        ELSE auctions[i]]

\* UPDATE auctions SET status = 'ended' WHERE product_id = ? AND status = 'open'
SoldOutUpdate(p) ==
    [i \in DOMAIN auctions |->
        IF auctions[i].product_id = p /\ auctions[i].status = "open"
        THEN [auctions[i] EXCEPT !.status = "ended"]
        ELSE auctions[i]]

\* The row is loaded and must be open, then the UPDATE is issued.  The UPDATE
\* writes the constant 'ended' whatever the row holds by then, so the handler
\* changes the table as one step taken at its UPDATE.
EndAuction(id) ==
    /\ server = "pg"
    /\ id \in DOMAIN auctions
    /\ auctions[id].status = "open"
    /\ auctions' = EndAuctionUpdate(id)
    /\ resp' = NoResp
    /\ UNCHANGED <<server, now, bids, req, apiReq>>
    /\ UNCHANGED notAuctionVars

\* The handler is not async: both UPDATEs are issued through the db shim
\* without awaiting; the auctions UPDATE is one statement.
SoldOut(p) ==
    /\ server = "pg"
    /\ p \in Products
    /\ auctions' = SoldOutUpdate(p)
    /\ resp' = NoResp
    /\ UNCHANGED <<server, now, bids, req, apiReq>>
    /\ UNCHANGED notAuctionVars

-----------------------------------------------------------------------------

NextAuction ==
    \/ Tick
    \/ \E p \in Products, sb \in StartingBidInputs : AdminCreateAuction(p, sb)
    \/ \E p \in Products : PgApiCreateCheck(p)
    \/ \E sb \in StartingBidInputs, d \in DurationInputs : PgApiCreateInsert(sb, d)
    \/ \E u \in Users, id \in 1..MaxAuctions, amt \in AmountInputs : SqliteBid(u, id, amt)
    \/ \E u \in Users, id \in 1..MaxAuctions : PgBidLoad(u, id)
    \/ \E u \in Users, amt \in AmountInputs : PgBidValidate(u, amt)
    \/ \E u \in Users : PgBidInsert(u)
    \/ \E u \in Users : PgBidUpdate(u)
    \/ \E id \in 1..MaxAuctions : EndAuction(id)
    \/ \E p \in Products : SoldOut(p)

\* The site with its bidders placing bids concurrently.
SpecAuction == InitAuction /\ [][NextAuction]_vars

\* The amounts the bidder of the lifecycle submits: one the handler rejects
\* and the first step of the increment grid.
LifecycleAmounts == {0, Increment}

\* The routes that write the auctions table, with a single bidder and taken
\* at one instant: no handler writes auctions.status from the clock (the bid
\* handler only reads end_time), and an auction whose end_time is already
\* past comes from POST /api/auctions with a negative duration.
NextLifecycle ==
    \/ \E p \in Products, sb \in StartingBidInputs : AdminCreateAuction(p, sb)
    \/ \E p \in Products : PgApiCreateCheck(p)
    \/ \E sb \in StartingBidInputs, d \in DurationInputs : PgApiCreateInsert(sb, d)
    \/ \E id \in 1..MaxAuctions, amt \in LifecycleAmounts : SqliteBid(1, id, amt)
    \/ \E id \in 1..MaxAuctions : PgBidLoad(1, id)
    \/ \E amt \in LifecycleAmounts : PgBidValidate(1, amt)
    \/ PgBidInsert(1)
    \/ PgBidUpdate(1)
    \/ \E id \in 1..MaxAuctions : EndAuction(id)
    \/ \E p \in Products : SoldOut(p)

SpecLifecycle == InitAuction /\ [][NextLifecycle]_vars

\* The routes with a single bidder and the clock, the decision on every bid
\* request observed.
NextValidate ==
    \/ Tick
    \/ \E p \in Products, sb \in StartingBidInputs : AdminCreateAuction(p, sb)
    \/ \E p \in Products : PgApiCreateCheck(p)
    \/ \E sb \in StartingBidInputs, d \in DurationInputs : PgApiCreateInsert(sb, d)
    \/ \E id \in 1..MaxAuctions, amt \in AmountInputs : SqliteBidObserved(1, id, amt)
    \/ \E id \in 1..MaxAuctions : PgBidLoad(1, id)
    \/ \E amt \in AmountInputs : PgBidValidateObserved(1, amt)
    \/ PgBidInsert(1)
    \/ PgBidUpdate(1)
    \/ \E id \in 1..MaxAuctions : EndAuction(id)
    \/ \E p \in Products : SoldOut(p)

SpecValidate == InitAuction /\ [][NextValidate]_vars

\* The amounts of the bidder whose rejections are observed: a non-positive
\* one, one off the increment grid and the first step of the grid (accepted
\* once, below the minimum afterwards).
RejectAmounts == {0, Increment \div 2, Increment}

\* The routes with a single bidder at one instant, the decision on every bid
\* request observed.
NextReject ==
    \/ \E p \in Products, sb \in StartingBidInputs : AdminCreateAuction(p, sb)
    \/ \E p \in Products : PgApiCreateCheck(p)
    \/ \E sb \in StartingBidInputs, d \in DurationInputs : PgApiCreateInsert(sb, d)
    \/ \E id \in 1..MaxAuctions, amt \in RejectAmounts : SqliteBidObserved(1, id, amt)
    \/ \E id \in 1..MaxAuctions : PgBidLoad(1, id)
    \/ \E amt \in RejectAmounts : PgBidValidateObserved(1, amt)
    \/ PgBidInsert(1)
    \/ PgBidUpdate(1)
    \/ \E id \in 1..MaxAuctions : EndAuction(id)
    \/ \E p \in Products : SoldOut(p)

SpecReject == InitAuction /\ [][NextReject]_vars

-----------------------------------------------------------------------------
(* ShippingManager.getAllRates *)

\* getAvailableCarriers(): fedex first, then ups, each when isConfigured().
AvailableCarriers ==
    (IF "fedex" \in configured THEN <<"fedex">> ELSE <<>>) \o
    (IF "ups" \in configured THEN <<"ups">> ELSE <<>>)

\* parseRateResponse of carrier c: every rate carries the adapter's carrier code.
Rate(c, k) == [carrier |-> c, cost |-> k]

RECURSIVE RateLists(_, _)
RateLists(c, n) ==
    IF n = 0 THEN {<<>>}
    ELSE RateLists(c, n - 1) \cup
         {Append(l, Rate(c, k)) : l \in {x \in RateLists(c, n - 1) : Len(x) = n - 1}, k \in 0..MaxCost}

\* The array left in the order the rates were pushed.
KeepPushOrder(rates) == rates

\* Array.prototype.sort((a, b) => a.cost - b.cost): stable, ascending by cost.
RECURSIVE InsertByCost(_, _)
InsertByCost(sorted, r) ==
    IF sorted = <<>> THEN <<r>>
    ELSE IF sorted[Len(sorted)].cost <= r.cost THEN Append(sorted, r)
    ELSE Append(InsertByCost(SubSeq(sorted, 1, Len(sorted) - 1), r), sorted[Len(sorted)])

RECURSIVE SortByCost(_)
SortByCost(rates) ==
    IF rates = <<>> THEN <<>>
    ELSE InsertByCost(SortByCost(SubSeq(rates, 1, Len(rates) - 1)), rates[Len(rates)])

\* A throw inside the loop body that is not caught rejects getAllRates.
UncaughtAdapterError == "threw"

\* catch (error) { this.logger.warn(...) }: the loop goes on.
CatchAdapterError == "loop"

InitRates ==
    /\ server = "pg"
    /\ InitAuctionVars
    /\ configured \in SUBSET Carriers
    /\ InitRatesVars
    /\ InitShipVars
    /\ InitTokenVars
    /\ InitOrderVars
    /\ InitDetailsVars
    /\ InitRecVars
    /\ InitDbVars

GetAllRatesCall ==
    /\ ratesPc \in {"idle", "done"}
    /\ ratesPc' = "loop"
    /\ carrierIdx' = 1
    /\ allRates' = <<>>
    /\ called' = [c \in Carriers |-> "none"]
    /\ returned' = [c \in Carriers |-> <<>>]
    /\ ratesResult' = <<>>
    /\ UNCHANGED configured
    /\ UNCHANGED notRatesVars

\* service.getRates(shipmentDetails) resolves: allRates.push(...rates)
GetRatesResolves(rates) ==
    /\ ratesPc = "loop"
    /\ carrierIdx <= Len(AvailableCarriers)
    /\ rates \in RateLists(AvailableCarriers[carrierIdx], MaxRates)
    /\ allRates' = allRates \o rates
    /\ called' = [called EXCEPT ![AvailableCarriers[carrierIdx]] = "ok"]
    /\ returned' = [returned EXCEPT ![AvailableCarriers[carrierIdx]] = rates]
    /\ carrierIdx' = carrierIdx + 1
    /\ UNCHANGED <<configured, ratesPc, ratesResult>>
    /\ UNCHANGED notRatesVars

\* service.getRates(shipmentDetails) rejects: authenticate() threw
\* ("auth") or the rate request or its parsing threw ("rate").
GetRatesThrows(kind) ==
    /\ ratesPc = "loop"
    /\ carrierIdx <= Len(AvailableCarriers)
    /\ kind \in {"auth", "rate"}
    /\ called' = [called EXCEPT ![AvailableCarriers[carrierIdx]] = kind]
    /\ ratesPc' = CatchAdapterError
    /\ carrierIdx' = carrierIdx + 1
    /\ UNCHANGED <<configured, allRates, returned, ratesResult>>
    /\ UNCHANGED notRatesVars

\* return allRates.sort((a, b) => a.cost - b.cost)
GetAllRatesReturn ==
    /\ ratesPc = "loop"
    /\ carrierIdx > Len(AvailableCarriers)
    /\ ratesResult' = SortByCost(allRates)
    /\ ratesPc' = "done"
    /\ UNCHANGED <<configured, carrierIdx, allRates, called, returned>>
    /\ UNCHANGED notRatesVars

NextRates ==
    \/ GetAllRatesCall
    \/ \E c \in Carriers : \E rates \in RateLists(c, MaxRates) : GetRatesResolves(rates)
    \/ \E kind \in {"auth", "rate"} : GetRatesThrows(kind)
    \/ GetAllRatesReturn

SpecRates == InitRates /\ [][NextRates]_vars

-----------------------------------------------------------------------------
(* ShippingManager.createOptimalShipment *)

\* rate.transitTime: 'Unknown', a weekday name (FedEx commit.dateDetail.dayOfWeek,
\* which parseInt turns into NaN), or a number of business days (UPS).
TransitUnknown == 0
TransitWeekday == -1

TransitTimes(c) ==
    IF c = "fedex" THEN {TransitUnknown, TransitWeekday} ELSE {TransitUnknown} \cup 1..MaxDays

\* One element of the list parseRateResponse builds.
ParsedRate(c, s, k, t) == [carrier |-> c, service |-> s, cost |-> k, transitTime |-> t]

\* The lists an adapter contributes: at most n rates, the i-th for the
\* carrier's i-th service; <<>> also when its getRates call threw.
RECURSIVE QuoteLists(_, _)
QuoteLists(c, n) ==
    IF n = 0 THEN {<<>>}
    ELSE QuoteLists(c, n - 1) \cup
         {Append(l, ParsedRate(c, n, k, t)) :
            l \in {x \in QuoteLists(c, n - 1) : Len(x) = n - 1},
            k \in 0..MaxCost, t \in TransitTimes(c)}

\* getAllRates as a function of what each carrier contributes.
GetAllRates(contributed) ==
    SortByCost((IF "fedex" \in configured THEN contributed["fedex"] ELSE <<>>) \o
               (IF "ups" \in configured THEN contributed["ups"] ELSE <<>>))

\* The preferences a caller may pass; NULL and "none" are absent keys.
PreferenceInputs ==
    [maxCost : {NULL} \cup 0..MaxCost,
     maxTransitDays : {NULL} \cup 0..MaxDays,
     preferredCarrier : {"none"} \cup Carriers]

\* if (x): undefined and 0 are falsy.
Truthy(x) == x # NULL /\ x # 0

\* parseInt(rate.transitTime) <= max, false for NaN.
ParsedTransitAtMost(t, max) == t >= 1 /\ t <= max

FilterMaxCost(rates, p) ==
    IF Truthy(p.maxCost) THEN SelectSeq(rates, LAMBDA r : r.cost <= p.maxCost) ELSE rates

FilterMaxTransitDays(rates, p) ==
    IF Truthy(p.maxTransitDays)
    THEN SelectSeq(rates, LAMBDA r : \/ r.transitTime = TransitUnknown
                                     \/ ParsedTransitAtMost(r.transitTime, p.maxTransitDays))
    ELSE rates

FilterPreferredCarrier(rates, p) ==
    IF p.preferredCarrier # "none"
    THEN LET preferredRates == SelectSeq(rates, LAMBDA r : r.carrier = p.preferredCarrier)
         IN  IF Len(preferredRates) > 0 THEN preferredRates ELSE rates
    ELSE rates

FilteredRates(rates, p) ==
    FilterPreferredCarrier(FilterMaxTransitDays(FilterMaxCost(rates, p), p), p)

\* The label request without the selected service: the adapter's default.
LabelRequestDefaultService(rate) == [carrier |-> rate.carrier, service |-> 0]

\* createShippingLabel(bestRate.carrier, {...shipmentDetails, serviceCode: bestRate.service})
LabelRequest(rate) == [carrier |-> rate.carrier, service |-> rate.service]

InitShipment ==
    /\ server = "pg"
    /\ InitAuctionVars
    /\ configured \in SUBSET Carriers
    /\ InitRatesVars
    /\ InitShipVars
    /\ InitTokenVars
    /\ InitOrderVars
    /\ InitDetailsVars
    /\ InitRecVars
    /\ InitDbVars

\* createOptimalShipment is called and getBestRate's await of getAllRates
\* resolves. Calls share no state, so one call is followed to its end.
CreateOptimalShipmentCall(fedexRates, upsRates) ==
    /\ shipPc = "idle"
    /\ fedexRates \in QuoteLists("fedex", MaxQuotes)
    /\ upsRates \in QuoteLists("ups", MaxQuotes)
    /\ "fedex" \notin configured => fedexRates = <<>>
    /\ "ups" \notin configured => upsRates = <<>>
    /\ quotes' = GetAllRates([fedex |-> fedexRates, ups |-> upsRates])
    /\ shipPc' = "rates"
    /\ prefs' = NoPrefs
    /\ bestRate' = NoRate
    /\ labelCalls' = <<>>
    /\ shipError' = "none"
    /\ UNCHANGED notShipVars

\* The rest of getBestRate and createOptimalShipment up to the await of the
\* adapter's createShippingLabel.
GetBestRateReturns(p) ==
    /\ shipPc = "rates"
    /\ p \in PreferenceInputs
    /\ prefs' = p
    /\ quotes' = <<>>
    /\ IF Len(quotes) = 0
       THEN /\ shipError' = "No shipping rates available"
            /\ shipPc' = "failed"
            /\ UNCHANGED <<bestRate, labelCalls>>
       ELSE IF Len(FilteredRates(quotes, p)) = 0
       THEN /\ shipError' = "No suitable shipping rates found"
            /\ shipPc' = "failed"
            /\ UNCHANGED <<bestRate, labelCalls>>
       ELSE IF FilteredRates(quotes, p)[1].carrier \notin configured
       THEN /\ shipError' = "Carrier is not configured"
            /\ shipPc' = "failed"
            /\ bestRate' = FilteredRates(quotes, p)[1]
            /\ UNCHANGED labelCalls
       ELSE /\ bestRate' = FilteredRates(quotes, p)[1]
            /\ labelCalls' = Append(labelCalls, LabelRequest(FilteredRates(quotes, p)[1]))
            /\ shipPc' = "label"
            /\ UNCHANGED shipError
    /\ UNCHANGED notShipVars

\* service.createShippingLabel resolves with the label.
CreateShippingLabelResolves ==
    /\ shipPc = "label"
    /\ shipPc' = "done"
    /\ UNCHANGED <<quotes, prefs, bestRate, labelCalls, shipError>>
    /\ UNCHANGED notShipVars

\* service.createShippingLabel rejects; createOptimalShipment logs and rethrows.
CreateShippingLabelThrows ==
    /\ shipPc = "label"
    /\ shipPc' = "failed"
    /\ shipError' = "Label creation failed"
    /\ UNCHANGED <<quotes, prefs, bestRate, labelCalls>>
    /\ UNCHANGED notShipVars

NextShipment ==
    \/ \E fedexRates \in QuoteLists("fedex", MaxQuotes), upsRates \in QuoteLists("ups", MaxQuotes) :
            CreateOptimalShipmentCall(fedexRates, upsRates)
    \/ \E p \in PreferenceInputs : GetBestRateReturns(p)
    \/ CreateShippingLabelResolves
    \/ CreateShippingLabelThrows

SpecShipment == InitShipment /\ [][NextShipment]_vars

-----------------------------------------------------------------------------
(* FedExService.authenticate, UPSService.authenticate (the same code) *)

\* tokenExpiry = Date.now() + expires_in * 1000 - 60000, here in seconds.
SafetyMarginSeconds == 60

\* The clock is read every TickSeconds.
TickSeconds == 30

\* The expires_in values (seconds) the provider answers with.
TtlInputs == {90, 120}

Callers == 1..MaxCallers

IdleAuth == [pc |-> "idle", token |-> 0]

ClockTick ==
    /\ clock < MaxTicks * TickSeconds
    /\ clock' = clock + TickSeconds
    /\ authEvent' = NoAuthEvent
    /\ UNCHANGED <<accessToken, tokenExpiry, authPc, issued>>
    /\ UNCHANGED notTokenVars

\* if (this.accessToken && this.tokenExpiry && Date.now() < this.tokenExpiry)
CachedTokenValid == accessToken # 0 /\ tokenExpiry # 0 /\ clock < tokenExpiry

\* authenticate() up to its first await: returns the cached token or sends
\* the token request.
AuthenticateCall(k) ==
    /\ authPc[k].pc = "idle"
    /\ IF CachedTokenValid
       THEN /\ authEvent' = [kind |-> "cached", caller |-> k, token |-> accessToken]
            /\ UNCHANGED authPc
       ELSE /\ authEvent' = [kind |-> "requested", caller |-> k, token |-> 0]
            /\ authPc' = [authPc EXCEPT ![k] = [pc |-> "fetching", token |-> 0]]
    /\ UNCHANGED <<clock, accessToken, tokenExpiry, issued>>
    /\ UNCHANGED notTokenVars

\* The provider issues a token with a TTL and answers the request.
TokenEndpointResponds(k, ttl) ==
    /\ authPc[k].pc = "fetching"
    /\ Len(issued) < MaxTokens
    /\ issued' = Append(issued, [at |-> clock, ttl |-> ttl])
    /\ authPc' = [authPc EXCEPT ![k] = [pc |-> "responded", token |-> Len(issued) + 1]]
    /\ authEvent' = NoAuthEvent
    /\ UNCHANGED <<clock, accessToken, tokenExpiry>>
    /\ UNCHANGED notTokenVars

\* if (!response.ok) throw: nothing is cached.
AuthenticateFails(k) ==
    /\ authPc[k].pc = "fetching"
    /\ authPc' = [authPc EXCEPT ![k] = IdleAuth]
    /\ authEvent' = [kind |-> "failed", caller |-> k, token |-> 0]
    /\ UNCHANGED <<clock, accessToken, tokenExpiry, issued>>
    /\ UNCHANGED notTokenVars

\* After await response.json(): the token and its expiry are cached and the
\* token is returned.
AuthenticateResumes(k) ==
    /\ authPc[k].pc = "responded"
    /\ accessToken' = authPc[k].token
    /\ tokenExpiry' = clock + issued[authPc[k].token].ttl - SafetyMarginSeconds
    /\ authPc' = [authPc EXCEPT ![k] = IdleAuth]
    /\ authEvent' = [kind |-> "refreshed", caller |-> k, token |-> authPc[k].token]
    /\ UNCHANGED <<clock, issued>>
    /\ UNCHANGED notTokenVars

InitToken ==
    /\ server = "pg"
    /\ InitAuctionVars
    /\ configured = Carriers
    /\ InitRatesVars
    /\ InitShipVars
    /\ InitTokenVars
    /\ InitOrderVars
    /\ InitDetailsVars
    /\ InitRecVars
    /\ InitDbVars

NextToken ==
    \/ ClockTick
    \/ \E k \in Callers : AuthenticateCall(k)
    \/ \E k \in Callers, ttl \in TtlInputs : TokenEndpointResponds(k, ttl)
    \/ \E k \in Callers : AuthenticateFails(k)
    \/ \E k \in Callers : AuthenticateResumes(k)

SpecToken == InitToken /\ [][NextToken]_vars

-----------------------------------------------------------------------------
(* Shipment records: the Stripe webhook, autoGenerateShippingLabel, the admin
   shipping routes and the tracking refresh *)

Orders == 1..MaxOrders

\* trackingInfo.status as the adapters' parseTrackingResponse sets it: the
\* carrier's status code, 'Unknown' or 'Not Found'.
TrackingStatusInputs == {"DL", "IT", "Unknown", "Not Found"}

\* String.prototype.toLowerCase on those values.
ToLowerCase(str) ==
    CASE str = "DL" -> "dl"
      [] str = "IT" -> "it"
      [] str = "Unknown" -> "unknown"
      [] str = "Not Found" -> "not found"

\* INSERT INTO shipments (order_id, ..., tracking_number, ..., status, ...)
InsertShipment(o, tracking, status) ==
    /\ Len(shipments) < MaxShipments
    /\ shipments' = Append(shipments, [order_id |-> o, tracking_number |-> tracking, status |-> status])

\* SELECT id FROM shipments WHERE order_id = ?
ExistingShipment(o) == \E i \in DOMAIN shipments : shipments[i].order_id = o

\* POST /webhook/stripe, SQLite revision: checkout.session.completed marks the
\* order paid and, when the session carries an address, inserts a shipment.
StripeWebhookSqlite(o, hasAddress) ==
    /\ server = "sqlite"
    /\ paid' = paid \cup {o}
    /\ IF hasAddress THEN InsertShipment(o, FALSE, "pending") ELSE UNCHANGED shipments
    /\ UNCHANGED <<server, autoTasks, bulkPc>>
    /\ UNCHANGED notOrderVars

\* POST /webhook/stripe, PostgreSQL revision: marks the order paid and, when
\* the session carries an address, schedules autoGenerateShippingLabel.
StripeWebhookPg(o, hasAddress) ==
    /\ server = "pg"
    /\ paid' = paid \cup {o}
    /\ IF hasAddress
       THEN /\ Len(autoTasks) < MaxTasks
            /\ autoTasks' = Append(autoTasks, [order |-> o, pc |-> "scheduled"])
       ELSE UNCHANGED autoTasks
    /\ UNCHANGED <<server, shipments, bulkPc>>
    /\ UNCHANGED notOrderVars

\* autoGenerateShippingLabel up to its await of createOptimalShipment.
AutoGenerateCheck(t) ==
    /\ t \in DOMAIN autoTasks
    /\ autoTasks[t].pc = "scheduled"
    /\ autoTasks' = [autoTasks EXCEPT ![t].pc =
            IF ExistingShipment(autoTasks[t].order) \/ autoTasks[t].order \notin paid
            THEN "done" ELSE "label"]
    /\ UNCHANGED <<server, paid, shipments, bulkPc>>
    /\ UNCHANGED notOrderVars

\* createOptimalShipment resolves and the shipment is inserted, or it rejects.
AutoGenerateInsert(t, labelled) ==
    /\ t \in DOMAIN autoTasks
    /\ autoTasks[t].pc = "label"
    /\ autoTasks' = [autoTasks EXCEPT ![t].pc = "done"]
    /\ IF labelled THEN InsertShipment(autoTasks[t].order, TRUE, "created") ELSE UNCHANGED shipments
    /\ UNCHANGED <<server, paid, bulkPc>>
    /\ UNCHANGED notOrderVars

\* POST /admin/shipping/create: the order is looked up as paid, the label is
\* created and the shipment inserted.
AdminShippingCreate(o, labelled) ==
    /\ server = "pg"
    /\ o \in paid
    /\ IF labelled THEN InsertShipment(o, TRUE, "created") ELSE UNCHANGED shipments
    /\ UNCHANGED <<server, paid, autoTasks, bulkPc>>
    /\ UNCHANGED notOrderVars

\* POST /admin/shipping/bulk, one order of the loop up to its await of
\* createOptimalShipment.
BulkCheck(o) ==
    /\ server = "pg"
    /\ bulkPc[o] = "idle"
    /\ o \in paid
    /\ ~ExistingShipment(o)
    /\ bulkPc' = [bulkPc EXCEPT ![o] = "label"]
    /\ UNCHANGED <<server, paid, shipments, autoTasks>>
    /\ UNCHANGED notOrderVars

BulkInsert(o, labelled) ==
    /\ bulkPc[o] = "label"
    /\ bulkPc' = [bulkPc EXCEPT ![o] = "idle"]
    /\ IF labelled THEN InsertShipment(o, TRUE, "created") ELSE UNCHANGED shipments
    /\ UNCHANGED <<server, paid, autoTasks>>
    /\ UNCHANGED notOrderVars

\* POST /admin/shipping/tracking/:shipmentId/refresh
TrackingRefresh(i, trackingStatus) ==
    /\ server = "pg"
    /\ i \in DOMAIN shipments
    /\ shipments[i].tracking_number
    /\ shipments' = [shipments EXCEPT ![i].status = ToLowerCase(trackingStatus)]
    /\ UNCHANGED <<server, paid, autoTasks, bulkPc>>
    /\ UNCHANGED notOrderVars

NextShipments ==
    \/ \E o \in Orders, hasAddress \in BOOLEAN : StripeWebhookSqlite(o, hasAddress)
    \/ \E o \in Orders, hasAddress \in BOOLEAN : StripeWebhookPg(o, hasAddress)
    \/ \E t \in 1..MaxTasks : AutoGenerateCheck(t)
    \/ \E t \in 1..MaxTasks, labelled \in BOOLEAN : AutoGenerateInsert(t, labelled)
    \/ \E o \in Orders, labelled \in BOOLEAN : AdminShippingCreate(o, labelled)
    \/ \E o \in Orders : BulkCheck(o)
    \/ \E o \in Orders, labelled \in BOOLEAN : BulkInsert(o, labelled)
    \/ \E i \in 1..MaxShipments, trackingStatus \in TrackingStatusInputs : TrackingRefresh(i, trackingStatus)

SpecShipments == InitAuction /\ [][NextShipments]_vars

-----------------------------------------------------------------------------
(* ShippingManager.validateAddress, buildShipmentDetails *)

Digits == {"0", "1", "2", "3", "4", "5", "6", "7", "8", "9"}

AllDigits(z, from, to) == \A i \in from..to : z[i] \in Digits

\* /^\d{5}(-\d{4})?$/.test(zip), the zip given as its sequence of characters
ZipRegexTest(z) ==
    \/ Len(z) = 5 /\ AllDigits(z, 1, 5)
    \/ Len(z) = 10 /\ AllDigits(z, 1, 5) /\ z[6] = "-" /\ AllDigits(z, 7, 10)

\* The zip codes submitted: empty, the two US forms, and malformed ones.
ZipInputs ==
    { <<>>,
      <<"1", "2", "3", "4", "5">>,
      <<"1", "2", "3", "4", "5", "-", "6", "7", "8", "9">>,
      <<"1", "2", "3", "4">>,
      <<"1", "2", "3", "4", "A">>,
      <<"1", "2", "3", "4", "5", "-", "6", "7", "8">> }

\* country: "" stands for a missing (undefined, null or empty) country.
CountryInputs == {"", "US", "CA"}

RequiredTextFields == {"name", "line1", "city", "state"}

\* The addresses submitted: complete in their text fields or with one of
\* them missing ("" stands for a missing or empty field).
AddressInputs ==
    { [name |-> IF m = "name" THEN "" ELSE "x",
       line1 |-> IF m = "line1" THEN "" ELSE "x",
       city |-> IF m = "city" THEN "" ELSE "x",
       state |-> IF m = "state" THEN "" ELSE "x",
       zip |-> z, country |-> c] :
      m \in RequiredTextFields \cup {"none"}, z \in ZipInputs, c \in CountryInputs }

\* required.filter(field => !address[field])
MissingFields(a) ==
    {f \in RequiredTextFields : a[f] = ""} \cup (IF a.zip = <<>> THEN {"zip"} ELSE {})

\* The zip is tested whatever the country says.
ValidateAddressAnyCountry(a) ==
    IF MissingFields(a) # {} THEN "Missing required address fields"
    ELSE IF ~ZipRegexTest(a.zip) THEN "Invalid US zip code format"
    ELSE "ok"

\* validateAddress(address): "ok" when it returns true, else the error thrown
ValidateAddress(a) ==
    IF MissingFields(a) # {} THEN "Missing required address fields"
    ELSE IF (a.country = "US" \/ a.country = "") /\ ~ZipRegexTest(a.zip)
    THEN "Invalid US zip code format"
    ELSE "ok"

\* estimateWeight(product), in tenths of a pound
EstimateWeight(product) ==
    IF product \in {"boot", "high"} THEN 25
    ELSE IF product \in {"running", "lightweight"} THEN 15
    ELSE 20

ProductNameInputs == {"boot", "sneaker"}

\* A bad address a caller may put in the options.
OverrideAddress == [name |-> "x", line1 |-> "x", city |-> "x", state |-> "x", zip |-> <<>>, country |-> "US"]

\* The options argument: keys holds the properties it has.
OptionsInputs ==
    { [keys |-> (IF w = 0 THEN {} ELSE {"weight"})
                \cup (IF i = "absent" THEN {} ELSE {"international"})
                \cup (IF t THEN {"toAddress"} ELSE {}),
       weight |-> w,
       international |-> (i = "true"),
       toAddress |-> IF t THEN OverrideAddress ELSE NoAddress] :
      w \in {0, 30}, i \in {"absent", "true", "false"}, t \in BOOLEAN }

\* { ...literal, ...options }: a property of options replaces the literal's.
Spread(options, key, value) == IF key \in options.keys THEN options[key] ELSE value

\* buildShipmentDetails(order, product, fromAddress, toAddress, options): the
\* error thrown, or the object returned (its value, itemDescription and
\* dimensions, copied from the order and the product, are left out).
BuildShipmentDetails(product, fromAddress, toAddress, options) ==
    IF ValidateAddress(fromAddress) # "ok"
    THEN [NoDetails EXCEPT !.error = ValidateAddress(fromAddress)]
    ELSE IF ValidateAddress(toAddress) # "ok"
    THEN [NoDetails EXCEPT !.error = ValidateAddress(toAddress)]
    ELSE [error |-> "none",
          fromAddress |-> fromAddress,
          toAddress |-> Spread(options, "toAddress", toAddress),
          weight |-> Spread(options, "weight",
                            IF options.weight # 0 THEN options.weight
                            ELSE EstimateWeight(product)),
          international |-> Spread(options, "international",
                                   fromAddress.country # toAddress.country)]

InitDetails ==
    /\ server = "pg"
    /\ InitAuctionVars
    /\ configured = {}
    /\ InitRatesVars
    /\ InitShipVars
    /\ InitTokenVars
    /\ InitOrderVars
    /\ InitRecVars
    /\ InitDbVars
    /\ detailsArgs \in [product : ProductNameInputs, fromAddress : AddressInputs,
                        toAddress : AddressInputs, options : OptionsInputs]
    /\ details = NoDetails

BuildShipmentDetailsCall ==
    /\ details = NoDetails
    /\ details' = BuildShipmentDetails(detailsArgs.product, detailsArgs.fromAddress,
                                       detailsArgs.toAddress, detailsArgs.options)
    /\ UNCHANGED detailsArgs
    /\ UNCHANGED notDetailsVars

NextDetails == BuildShipmentDetailsCall

\* One call of buildShipmentDetails on each combination of arguments.
SpecDetails == InitDetails /\ [][NextDetails]_vars

-----------------------------------------------------------------------------
(* ShippingManager.getServiceRecommendations *)

\* The rate lists handed in: any costs and any parsed transit times, in any order.
RecRateInputs ==
    { ParsedRate("ups", 1, k, t) :
        k \in 0..MaxCost, t \in {TransitWeekday, TransitUnknown} \cup (1..MaxDays) }

RECURSIVE SelectIndexes(_, _)
\* rates.filter(rate => rate.transitTime && rate.transitTime !== 'Unknown' &&
\* !isNaN(parseInt(rate.transitTime))): the positions kept, in order, up to n
SelectIndexes(rates, n) ==
    IF n = 0 THEN <<>>
    ELSE IF rates[n].transitTime >= 1
         THEN Append(SelectIndexes(rates, n - 1), n)
         ELSE SelectIndexes(rates, n - 1)

WithTransitTime(rates) == SelectIndexes(rates, Len(rates))

\* A reduce callback that keeps prev on a tie: prev <= curr ? prev : curr.
KeepsPrevOnTie(kind, prev, curr) ==
    CASE kind = "cheapest" -> prev.cost <= curr.cost
      [] kind = "fastest" -> prev.transitTime <= curr.transitTime
      [] kind = "best_value" ->
            prev.cost * curr.transitTime <= curr.cost * prev.transitTime

\* The condition of the three reduce callbacks, prev.x < curr.x ? prev : curr;
\* the scores prev.cost / parseInt(prev.transitTime) are compared by
\* cross-multiplication (the transit times are positive).
KeepsPrev(kind, prev, curr) ==
    CASE kind = "cheapest" -> prev.cost < curr.cost
      [] kind = "fastest" -> prev.transitTime < curr.transitTime
      [] kind = "best_value" ->
            prev.cost * curr.transitTime < curr.cost * prev.transitTime

RECURSIVE ReduceFrom(_, _, _, _, _)
\* Array.prototype.reduce without an initial value over the positions cand of
\* rates: acc is the position kept so far, i the next one to visit.
ReduceFrom(kind, rates, cand, acc, i) ==
    IF i > Len(cand) THEN acc
    ELSE ReduceFrom(kind, rates, cand,
                    IF KeepsPrev(kind, rates[acc], rates[cand[i]]) THEN acc ELSE cand[i],
                    i + 1)

Reduce(kind, rates, cand) == ReduceFrom(kind, rates, cand, cand[1], 2)

Pick(type, i) == [type |-> type, rate |-> i]

\* recommendations.find(r => r.type === 'fastest')?.rate, 0 for undefined
FindFastest(recs) ==
    IF \E j \in DOMAIN recs : recs[j].type = "fastest"
    THEN recs[CHOOSE j \in DOMAIN recs : recs[j].type = "fastest"].rate
    ELSE 0

\* getServiceRecommendations(rates); the rates are objects compared by
\* identity, so a pick holds the position of its rate in the argument.
GetServiceRecommendations(rates) ==
    IF Len(rates) = 0 THEN <<>>
    ELSE LET cheapest == Reduce("cheapest", rates, [i \in 1..Len(rates) |-> i])
             withTransitTime == WithTransitTime(rates)
             r1 == <<Pick("cheapest", cheapest)>>
             r2 == IF Len(withTransitTime) > 0
                      /\ Reduce("fastest", rates, withTransitTime) # cheapest
                   THEN Append(r1, Pick("fastest", Reduce("fastest", rates, withTransitTime)))
                   ELSE r1
         IN  IF Len(withTransitTime) > 0
                /\ Reduce("best_value", rates, withTransitTime) # cheapest
                /\ Reduce("best_value", rates, withTransitTime) # FindFastest(r2)
             THEN Append(r2, Pick("best_value", Reduce("best_value", rates, withTransitTime)))
             ELSE r2

RECURSIVE SeqsUpTo(_, _)
\* The sequences over S of length at most n.
SeqsUpTo(S, n) ==
    IF n = 0 THEN {<<>>}
    ELSE SeqsUpTo(S, n - 1) \cup {Append(q, x) : q \in {p \in SeqsUpTo(S, n - 1) : Len(p) = n - 1}, x \in S}

InitRecommendations ==
    /\ server = "pg"
    /\ InitAuctionVars
    /\ configured = {}
    /\ InitRatesVars
    /\ InitShipVars
    /\ InitTokenVars
    /\ InitOrderVars
    /\ InitDetailsVars
    /\ InitDbVars
    /\ recRates \in SeqsUpTo(RecRateInputs, MaxRecRates)
    /\ recPc = "idle"
    /\ recommendations = <<>>

GetServiceRecommendationsCall ==
    /\ recPc = "idle"
    /\ recommendations' = GetServiceRecommendations(recRates)
    /\ recPc' = "returned"
    /\ UNCHANGED recRates
    /\ UNCHANGED notRecVars

NextRecommendations == GetServiceRecommendationsCall

\* One call of getServiceRecommendations on each rate list.
SpecRecommendations == InitRecommendations /\ [][NextRecommendations]_vars

-----------------------------------------------------------------------------
(* transaction(callback): database.js (SQLite revision), part_000 (PostgreSQL) *)

TxCallers == 1..MaxTx

\* One step of the call of caller k: its new position, what it appends to
\* its log, and how its callback ended and what it rejects with by then.
TxStep(k, pc, event, cb, error) ==
    /\ tx' = [tx EXCEPT ![k] = [pc |-> pc,
                                cb |-> cb,
                                log |-> IF event = "" THEN tx[k].log ELSE Append(tx[k].log, event),
                                error |-> error]]
    /\ UNCHANGED dbQuery
    /\ UNCHANGED notDbVars

\* transaction(callback) is called.  database.js defines no pool (it opens
\* the sqlite3 handle db), so there its first line throws a ReferenceError.
TransactionCall(k) ==
    /\ tx[k].pc = "idle"
    /\ IF server = "sqlite"
       THEN TxStep(k, "threw", "", "none", "ReferenceError")
       ELSE TxStep(k, "connect", "", "none", "none")

\* const client = await pool.connect(): outside the try, a rejection leaves
\* the function at once.
TxPoolConnect(k, ok) ==
    /\ tx[k].pc = "connect"
    /\ IF ok THEN TxStep(k, "begin", "connect", "none", "none")
       ELSE TxStep(k, "threw", "", "none", "connect error")

\* await client.query('BEGIN')
TxBegin(k, ok) ==
    /\ tx[k].pc = "begin"
    /\ IF ok THEN TxStep(k, "callback", "BEGIN", "none", "none")
       ELSE TxStep(k, "catch", "BEGIN", "none", "begin error")

\* const result = await callback(client)
TxCallback(k, ok) ==
    /\ tx[k].pc = "callback"
    /\ IF ok THEN TxStep(k, "commit", "", "resolved", "none")
       ELSE TxStep(k, "catch", "", "rejected", "callback error")

\* await client.query('COMMIT'); return result
TxCommit(k, ok) ==
    /\ tx[k].pc = "commit"
    /\ IF ok THEN TxStep(k, "finally", "COMMIT", tx[k].cb, "none")
       ELSE TxStep(k, "catch", "COMMIT", tx[k].cb, "commit error")

\* catch (error) { await client.query('ROLLBACK'); ...; throw error }
TxRollback(k, ok) ==
    /\ tx[k].pc = "catch"
    /\ IF ok THEN TxStep(k, "finally", "ROLLBACK", tx[k].cb, tx[k].error)
       ELSE TxStep(k, "finally", "ROLLBACK", tx[k].cb, "rollback error")

\* finally { client.release() }, then the call returns or rejects
TxRelease(k) ==
    /\ tx[k].pc = "finally"
    /\ TxStep(k, IF tx[k].error = "none" THEN "returned" ELSE "threw", "release",
              tx[k].cb, tx[k].error)

InitTransaction ==
    /\ server \in {"sqlite", "pg"}
    /\ InitAuctionVars
    /\ configured = {}
    /\ InitRatesVars
    /\ InitShipVars
    /\ InitTokenVars
    /\ InitOrderVars
    /\ InitDetailsVars
    /\ InitRecVars
    /\ InitDbVars

NextTransaction ==
    \/ \E k \in TxCallers : TransactionCall(k)
    \/ \E k \in TxCallers, ok \in BOOLEAN : TxPoolConnect(k, ok)
    \/ \E k \in TxCallers, ok \in BOOLEAN : TxBegin(k, ok)
    \/ \E k \in TxCallers, ok \in BOOLEAN : TxCallback(k, ok)
    \/ \E k \in TxCallers, ok \in BOOLEAN : TxCommit(k, ok)
    \/ \E k \in TxCallers, ok \in BOOLEAN : TxRollback(k, ok)
    \/ \E k \in TxCallers : TxRelease(k)

\* Concurrent calls of transaction, each on its own pooled client.
SpecTransaction == InitTransaction /\ [][NextTransaction]_vars

-----------------------------------------------------------------------------
(* query(text, params, maxRetries): the pooled query helper of part_000 *)

RetryableCodes == {"ECONNREFUSED", "ENOTFOUND", "ETIMEDOUT", "ECONNRESET"}

\* The errors pool.connect() and client.query() reject with: the four
\* connection codes, a constraint violation (23505), and an error of another
\* code whose message contains 'connection' (57P01).
ErrorInputs ==
    {[code |-> c, connection |-> FALSE] : c \in RetryableCodes \cup {"23505"}}
        \cup {[code |-> "57P01", connection |-> TRUE]}

\* const isRetryableError = error.code === 'ECONNREFUSED' || ... ||
\*     error.message.includes('connection')
IsRetryableError(error) == error.code \in RetryableCodes \/ error.connection

UndefinedError == [code |-> "undefined", connection |-> FALSE]

\* query is called: let lastError; attempt = 1; with maxRetries < 1 the loop
\* is skipped and throw lastError throws undefined.
QueryCall(maxRetries) ==
    /\ dbQuery.pc = "idle"
    /\ dbQuery' = IF 1 <= maxRetries
                  THEN [IdleQuery EXCEPT !.pc = "connect", !.maxRetries = maxRetries,
                                         !.attempt = 1]
                  ELSE [IdleQuery EXCEPT !.pc = "threw", !.maxRetries = maxRetries,
                                         !.attempt = 1, !.error = UndefinedError]
    /\ UNCHANGED tx
    /\ UNCHANGED notDbVars

\* const client = await pool.connect() resolves.
QueryPoolConnects ==
    /\ dbQuery.pc = "connect"
    /\ dbQuery' = [dbQuery EXCEPT !.pc = "query", !.log = Append(@, "connect")]
    /\ UNCHANGED tx
    /\ UNCHANGED notDbVars

\* await pool.connect() rejects: it stands before the try, so the error
\* leaves query at once.
QueryPoolConnectRejects(error) ==
    /\ dbQuery.pc = "connect"
    /\ dbQuery' = [dbQuery EXCEPT !.pc = "threw", !.error = error,
                                  !.log = Append(@, "connect failed")]
    /\ UNCHANGED tx
    /\ UNCHANGED notDbVars

\* await client.query(text, params) resolves: return res, after the finally
\* block released the client.
ClientQueryResolves ==
    /\ dbQuery.pc = "query"
    /\ dbQuery' = [dbQuery EXCEPT !.pc = "returned",
                                  !.log = Append(Append(@, "query ok"), "release")]
    /\ UNCHANGED tx
    /\ UNCHANGED notDbVars

\* await client.query(text, params) rejects: the catch block throws the
\* error (and finally releases the client) or starts waiting for the retry
\* delay, the client still held.
ClientQueryRejects(error) ==
    /\ dbQuery.pc = "query"
    /\ dbQuery' = IF ~IsRetryableError(error) \/ dbQuery.attempt = dbQuery.maxRetries
                  THEN [dbQuery EXCEPT !.pc = "threw", !.lastError = error, !.error = error,
                                       !.log = Append(Append(@, "query failed"), "release")]
                  ELSE [dbQuery EXCEPT !.pc = "delay", !.lastError = error,
                                       !.log = Append(@, "query failed")]
    /\ UNCHANGED tx
    /\ UNCHANGED notDbVars

\* The retry delay elapses: finally releases the client and attempt++ starts
\* the next iteration (attempt <= maxRetries holds, the catch block threw
\* otherwise).
RetryDelayElapses ==
    /\ dbQuery.pc = "delay"
    /\ dbQuery' = [dbQuery EXCEPT !.pc = "connect", !.attempt = @ + 1,
                                  !.log = Append(@, "release")]
    /\ UNCHANGED tx
    /\ UNCHANGED notDbVars

InitQuery ==
    /\ server = "pg"
    /\ InitAuctionVars
    /\ configured = {}
    /\ InitRatesVars
    /\ InitShipVars
    /\ InitTokenVars
    /\ InitOrderVars
    /\ InitDetailsVars
    /\ InitRecVars
    /\ InitDbVars

NextQuery ==
    \/ \E m \in 0..MaxRetries : QueryCall(m)
    \/ QueryPoolConnects
    \/ \E e \in ErrorInputs : QueryPoolConnectRejects(e)
    \/ ClientQueryResolves
    \/ \E e \in ErrorInputs : ClientQueryRejects(e)
    \/ RetryDelayElapses

\* One call of query with each maxRetries and each way its awaits can end.
SpecQuery == InitQuery /\ [][NextQuery]_vars

-----------------------------------------------------------------------------
(* Properties *)

BidsOf(i) == SelectSeq(bids, LAMBDA b : b.auction_id = i)

\* C1: overlapping bid requests on one auction are serialized: a request
\* writes its bid only if the currentBid it was validated against is still the
\* stored one, so no two bids are accepted on the same currentBid snapshot.
C1_BidsSerialized ==
    [][\A u \in Users :
        (req[u].pc = "validated" /\ req'[u].pc = "inserted")
            => req[u].snap.current_bid = auctions[req[u].id].current_bid]_vars

\* C2: the bid row and the auction's currentBid/currentBidUserId are written
\* together or not at all: in every state the auction carries the amount and
\* the bidder of the last bid row recorded for it, and nothing when it has none.
C2_BidAndAuctionTogether ==
    \A i \in DOMAIN auctions :
        IF BidsOf(i) = <<>>
        THEN auctions[i].current_bid = NULL /\ auctions[i].current_bid_user_id = NULL
        ELSE /\ auctions[i].current_bid = BidsOf(i)[Len(BidsOf(i))].amount
             /\ auctions[i].current_bid_user_id = BidsOf(i)[Len(BidsOf(i))].user_id

\* C3: a bid handled at a time now >= endTime, the instant now = endTime
\* included, is rejected as AuctionEnded.
C3_RejectedFromEndTime ==
    (resp.result # "none" /\ resp.at >= resp.snap.end_time) => resp.result = "Auction ended"

\* max(startingBid, currentBid) + increment of the validated row
ClaimedMinimum ==
    Max(resp.snap.starting_bid,
        IF resp.snap.current_bid = NULL THEN 0 ELSE resp.snap.current_bid) + Increment

\* C4: on an open auction before its end time, a bid of exactly
\* max(startingBid, currentBid) + increment is accepted and a bid of one less
\* is rejected as BadIncrement or BelowMinimum, whatever startingBid was stored.
C4_MinimumBidAccepted ==
    (resp.result # "none" /\ resp.snap.status = "open" /\ resp.at < resp.snap.end_time) =>
        /\ resp.amt = ClaimedMinimum => resp.result = "Accepted"
        /\ resp.amt = ClaimedMinimum - 1 => resp.result \in {"Bad increment", "Below minimum"}

\* The decision of the first failing rule, in the claimed order.
ClaimedDecision ==
    IF resp.snap.status # "open" THEN "Auction not open"
    ELSE IF resp.at >= resp.snap.end_time THEN "Auction ended"
    ELSE IF resp.amt <= 0 THEN "Invalid amount"
    ELSE IF resp.amt % Increment # 0 THEN "Bad increment"
    ELSE IF resp.amt < ClaimedMinimum THEN "Below minimum"
    ELSE "Accepted"

\* C5: the decision on a bid is that of the first failing rule in the order
\* AuctionNotOpen, AuctionEnded, InvalidAmount, BadIncrement, BelowMinimum,
\* and Accepted when no rule fails.
C5_FirstFailingRule ==
    resp.result # "none" => resp.result = ClaimedDecision

\* C6: an auction's currentBid, when set, is at least startingBid and differs
\* from it by a whole number of increments.
C6_CurrentBidOnIncrementGrid ==
    \A i \in DOMAIN auctions :
        auctions[i].current_bid # NULL =>
            /\ auctions[i].current_bid >= auctions[i].starting_bid
            /\ (auctions[i].current_bid - auctions[i].starting_bid) % Increment = 0

\* C7: every bid row recorded is a multiple of the increment and at least the
\* auction's currentBid just before it was recorded (startingBid for the first
\* bid) plus the increment.
C7_RecordedBidsIncrease ==
    [][bids' # bids =>
        LET b == bids'[Len(bids')]
            a == auctions[b.auction_id]
        IN  /\ b.amount % Increment = 0
            /\ b.amount >= (IF a.current_bid = NULL THEN a.starting_bid ELSE a.current_bid)
                            + Increment]_vars

\* C8: an auction's status is open or ended, is open when the auction is
\* created, and an ended auction is ended in every later state.
C8_EndedIsTerminal ==
    [][/\ \A i \in DOMAIN auctions :
            /\ i \in DOMAIN auctions'
            /\ auctions[i].status = "ended" => auctions'[i].status = "ended"
       /\ \A i \in DOMAIN auctions' :
            /\ auctions'[i].status \in {"open", "ended"}
            /\ i \notin DOMAIN auctions => auctions'[i].status = "open"]_vars

\* An ended auction that was bid on, next to a later auction that is open.
C8_Witness ==
    \E i, j \in DOMAIN auctions :
        /\ i < j
        /\ auctions[i].status = "ended"
        /\ auctions[i].current_bid # NULL
        /\ auctions[j].status = "open"

\* C9: a bid request that runs with now >= endTime on an auction stored as
\* open leaves it stored as ended when the request completes.
C9_LazyEndTransition ==
    [][\A u \in Users :
        (/\ req[u].pc = "loaded"
         /\ req'[u].pc # "loaded"
         /\ now >= req[u].snap.end_time
         /\ auctions[req[u].id].status = "open")
            => auctions'[req[u].id].status = "ended"]_vars

RatesOf(c) == SelectSeq(ratesResult, LAMBDA r : r.carrier = c)

\* C10: getAllRates never rejects; when it returns, every configured carrier
\* was asked for rates, a carrier whose call threw contributes no rate, and
\* the result is empty when every call threw or no carrier is configured.
C10_AdapterFailureIsolated ==
    /\ ratesPc # "threw"
    /\ ratesPc = "done" =>
        /\ \A c \in configured : called[c] # "none"
        /\ \A c \in Carriers : called[c] \in {"none", "auth", "rate"} => RatesOf(c) = <<>>
        /\ (\A c \in configured : called[c] \in {"auth", "rate"}) => ratesResult = <<>>

\* fedex threw, ups answered, and the result holds the ups rates.
C10_Witness ==
    /\ ratesPc = "done"
    /\ called["fedex"] = "auth"
    /\ called["ups"] = "ok"
    /\ ratesResult # <<>>

\* The number of occurrences of rate r in a list.
CountIn(rates, r) == Cardinality({i \in DOMAIN rates : rates[i] = r})

\* C11: the list getAllRates returns holds every rate the adapters that
\* succeeded returned, each as many times as it was returned and nothing
\* else, in order of non-decreasing cost.
C11_RatesUnionSorted ==
    ratesPc = "done" =>
        /\ \A c \in Carriers, k \in 0..MaxCost :
                CountIn(ratesResult, Rate(c, k)) =
                    CountIn(returned["fedex"], Rate(c, k)) + CountIn(returned["ups"], Rate(c, k))
        /\ Len(ratesResult) = Len(returned["fedex"]) + Len(returned["ups"])
        /\ \A i, j \in DOMAIN ratesResult : i < j => ratesResult[i].cost <= ratesResult[j].cost

\* Both carriers answered, fedex with the dearer rates, one rate twice.
C11_Witness ==
    /\ ratesPc = "done"
    /\ Len(returned["fedex"]) = 2
    /\ returned["fedex"][1] = returned["fedex"][2]
    /\ returned["ups"] # <<>>
    /\ returned["fedex"][1].cost > returned["ups"][1].cost

\* The filters as the contract states them: a preference is applied when given.
ClaimedCostOk(r, p) == p.maxCost = NULL \/ r.cost <= p.maxCost

ClaimedTransitOk(r, p) ==
    \/ p.maxTransitDays = NULL
    \/ r.transitTime = TransitUnknown
    \/ ParsedTransitAtMost(r.transitTime, p.maxTransitDays)

ClaimedRemaining(rates, p) ==
    SelectSeq(rates, LAMBDA r : ClaimedCostOk(r, p) /\ ClaimedTransitOk(r, p))

ClaimedPreferred(rates, p) ==
    SelectSeq(ClaimedRemaining(rates, p), LAMBDA r : r.carrier = p.preferredCarrier)

ClaimedCandidates(rates, p) ==
    IF p.preferredCarrier # "none" /\ ClaimedPreferred(rates, p) # <<>>
    THEN ClaimedPreferred(rates, p)
    ELSE ClaimedRemaining(rates, p)

Cheapest(r, rates) ==
    /\ \E i \in DOMAIN rates : rates[i] = r
    /\ \A i \in DOMAIN rates : r.cost <= rates[i].cost

\* getBestRate's continuation has run: createOptimalShipment selected or failed.
Selecting == shipPc = "rates" /\ shipPc' # "rates"

\* C12: a rate createOptimalShipment selects is within the max-cost and the
\* max-transit-days ceilings that were given, and is the cheapest of the rates
\* left by the filters max cost, max transit days, preferred-carrier pin.
C12_SelectedWithinCeilings ==
    [][(Selecting /\ shipPc' = "label") =>
          /\ ClaimedCostOk(bestRate', prefs')
          /\ ClaimedTransitOk(bestRate', prefs')
          /\ Cheapest(bestRate', ClaimedCandidates(quotes, prefs'))]_vars

\* C13: when a rate of the preferred carrier remains after the cost and
\* transit filters the selected rate is that carrier's cheapest remaining
\* rate; when none remains the cheapest remaining rate is selected.
C13_PreferredCarrierAdvisory ==
    [][(Selecting /\ prefs'.preferredCarrier # "none") =>
          /\ ClaimedPreferred(quotes, prefs') # <<>> =>
                /\ shipPc' = "label"
                /\ bestRate'.carrier = prefs'.preferredCarrier
                /\ Cheapest(bestRate', ClaimedPreferred(quotes, prefs'))
          /\ (ClaimedPreferred(quotes, prefs') = <<>> /\ ClaimedRemaining(quotes, prefs') # <<>>) =>
                /\ shipPc' = "label"
                /\ Cheapest(bestRate', ClaimedRemaining(quotes, prefs'))]_vars

\* C14: when getAllRates returns no rate, or the filters leave none,
\* createOptimalShipment fails and no createShippingLabel call is made.
C14_NoRatesNoLabel ==
    [][(Selecting /\ ClaimedRemaining(quotes, prefs') = <<>>) =>
          /\ shipPc' = "failed"
          /\ shipError' \in {"No shipping rates available", "No suitable shipping rates found"}
          /\ labelCalls' = <<>>]_vars

\* C15: one createOptimalShipment call makes at most one createShippingLabel
\* call, on the carrier and with the service code of the selected rate; when
\* that call fails the operation fails with its error and no other is made.
C15_OneLabelCall ==
    /\ Len(labelCalls) <= 1
    /\ shipPc \in {"label", "done"} => Len(labelCalls) = 1
    /\ labelCalls # <<>> =>
          /\ bestRate # NoRate
          /\ labelCalls[1].carrier = bestRate.carrier
          /\ labelCalls[1].service = bestRate.service
    /\ shipError = "Label creation failed" => (shipPc = "failed" /\ Len(labelCalls) = 1)

\* The label call for the selected rate failed while the other carrier had
\* quoted a rate too.
C15_Witness ==
    /\ shipPc = "failed"
    /\ shipError = "Label creation failed"
    /\ Len(labelCalls) = 1
    /\ labelCalls[1] = [carrier |-> "ups", service |-> 1]
    /\ prefs.preferredCarrier = "ups"

\* C16: authenticate returns the cached token exactly when one is cached and
\* now < tokenExpiry, otherwise it requests a token; a token response sets
\* the cached token and tokenExpiry = processing time + TTL - 60 s; and a
\* cached token is never handed out in the last 60 seconds of its TTL or later.
C16_CachedTokenWithinMargin ==
    [][/\ authEvent'.kind = "cached" =>
            /\ CachedTokenValid
            /\ authEvent'.token = accessToken
            /\ clock < issued[accessToken].at + issued[accessToken].ttl - SafetyMarginSeconds
       /\ authEvent'.kind = "requested" => ~CachedTokenValid
       /\ authEvent'.kind = "refreshed" =>
            /\ accessToken' = authEvent'.token
            /\ tokenExpiry' = clock + issued[accessToken'].ttl - SafetyMarginSeconds]_vars

\* C17: calls of authenticate that overlap while no unexpired token is
\* cached send at most one token request more than the one that is needed.
C17_OneRedundantRequest ==
    Cardinality({k \in Callers : authPc[k].pc # "idle"}) <= 2

ShipmentsOf(o) == {i \in DOMAIN shipments : shipments[i].order_id = o}

\* C18: every order has at most one shipment record.
C18_OneShipmentPerOrder ==
    \A o \in Orders : Cardinality(ShipmentsOf(o)) <= 1

StatusRank(status) ==
    CASE status = "pending" -> 1
      [] status = "created" -> 2
      [] status = "in_transit" -> 3
      [] status = "delivered" -> 4
      [] OTHER -> 0

\* C20: a shipment's status is one of pending, created, in_transit,
\* delivered, cancelled, and a step only moves it forward along
\* pending -> created -> in_transit -> delivered, or to cancelled.
C20_ShipmentStatusForward ==
    [][\A i \in DOMAIN shipments' :
          /\ shipments'[i].status \in {"pending", "created", "in_transit", "delivered", "cancelled"}
          /\ (i \in DOMAIN shipments /\ shipments'[i].status # "cancelled") =>
                StatusRank(shipments'[i].status) >= StatusRank(shipments[i].status)]_vars

\* C19: every stored auction has endTime > startTime, whatever duration the
\* creation routes accepted.
C19_EndAfterStart ==
    \A i \in DOMAIN auctions : auctions[i].end_time > auctions[i].start_time

ValidAddressAsClaimed(a) ==
    /\ a.name # "" /\ a.line1 # "" /\ a.city # "" /\ a.state # "" /\ a.zip # <<>>
    /\ a.country \in {"US", ""} => ZipRegexTest(a.zip)

C22_InternationalDerived ==
    details.error = "none" =>
        details.international
            = (detailsArgs.fromAddress.country # detailsArgs.toAddress.country)

PickOf(type) == recommendations[CHOOSE j \in DOMAIN recommendations : recommendations[j].type = type].rate

HasPick(type) == \E j \in DOMAIN recommendations : recommendations[j].type = type

NumericTransit == {i \in DOMAIN recRates : recRates[i].transitTime >= 1}

\* The first rate of rs as good as any under the given criterion.
FirstBest(kind, rs) ==
    CHOOSE i \in rs :
        /\ \A j \in rs : KeepsPrevOnTie(kind, recRates[i], recRates[j])
        /\ \A j \in rs : j < i => ~KeepsPrevOnTie(kind, recRates[j], recRates[i])

\* C23: each pick of getServiceRecommendations is the first rate of the input
\* list among those equally good: the first of minimum cost (cheapest), the
\* first of minimum transit days (fastest), the first of minimum cost per
\* transit day (best_value).
C23_TiesByInputOrder ==
    recPc = "returned" =>
        /\ HasPick("cheapest") => PickOf("cheapest") = FirstBest("cheapest", DOMAIN recRates)
        /\ HasPick("fastest") => PickOf("fastest") = FirstBest("fastest", NumericTransit)
        /\ HasPick("best_value") => PickOf("best_value") = FirstBest("best_value", NumericTransit)

\* C24: an empty list gives no picks; a non-empty list gives one to three
\* picks with distinct tags: always a cheapest pick of minimum cost, a fastest
\* pick of minimum transit days whenever some rate has a numeric transit
\* time, and a best_value pick only when its rate is neither of the other two.
C24_PicksAsDescribed ==
    recPc = "returned" =>
        IF recRates = <<>> THEN recommendations = <<>>
        ELSE /\ Len(recommendations) \in 1..3
             /\ \A i, j \in DOMAIN recommendations :
                    recommendations[i].type = recommendations[j].type => i = j
             /\ HasPick("cheapest")
             /\ \A j \in DOMAIN recRates : recRates[PickOf("cheapest")].cost <= recRates[j].cost
             /\ HasPick("fastest") <=> NumericTransit # {}
             /\ HasPick("fastest") =>
                    \A j \in NumericTransit :
                        recRates[PickOf("fastest")].transitTime <= recRates[j].transitTime
             /\ HasPick("best_value") =>
                    /\ PickOf("best_value") # PickOf("cheapest")
                    /\ HasPick("fastest") => PickOf("best_value") # PickOf("fastest")
                    /\ \A j \in NumericTransit :
                        KeepsPrevOnTie("best_value", recRates[PickOf("best_value")], recRates[j])

BidsOn(i) == {j \in DOMAIN bids : bids[j].auction_id = i}

\* C25: an auction with recorded bids carries the largest recorded amount as
\* its current_bid and the bidder of a bid of that amount as its
\* current_bid_user_id.
C25_CurrentBidIsLargest ==
    \A i \in DOMAIN auctions :
        BidsOn(i) # {} =>
            \E j \in BidsOn(i) :
                /\ \A k \in BidsOn(i) : bids[k].amount <= bids[j].amount
                /\ auctions[i].current_bid = bids[j].amount
                /\ auctions[i].current_bid_user_id = bids[j].user_id

\* C26: once an auction is ended no bid is recorded for it and its
\* current_bid and current_bid_user_id stay as they are.
C26_EndedTakesNoBid ==
    [][\A i \in DOMAIN auctions :
        auctions[i].status = "ended" =>
            /\ auctions'[i].current_bid = auctions[i].current_bid
            /\ auctions'[i].current_bid_user_id = auctions[i].current_bid_user_id
            /\ Len(bids') > Len(bids) => bids'[Len(bids')].auction_id # i]_vars

\* C27: no product has two auctions with status open at the same time.
C27_OneOpenAuctionPerProduct ==
    \A i, j \in DOMAIN auctions :
        /\ auctions[i].product_id = auctions[j].product_id
        /\ auctions[i].status = "open"
        /\ auctions[j].status = "open"
        => i = j

\* C28: a bid request answered with a rejection inserts no bid row and leaves
\* every row of the auctions table as it was.
C28_RejectedRecordsNothing ==
    [][resp'.result \notin {"none", "Accepted"} =>
        bids' = bids /\ auctions' = auctions]_vars

C28_Witness ==
    /\ resp.result = "Below minimum"
    /\ bids # <<>>

Issued(k, event) == Cardinality({i \in DOMAIN tx[k].log : tx[k].log[i] = event})

\* C29: a finished call of transaction that got its connection issued COMMIT
\* exactly when its callback completed without error and ROLLBACK otherwise,
\* never both; it rejects with the callback's error when the callback threw;
\* and it released the connection exactly once.
C29_CommitOrRollback ==
    \A k \in TxCallers :
        (tx[k].pc \in {"returned", "threw"} /\ Issued(k, "connect") = 1) =>
            /\ Issued(k, "COMMIT") = (IF tx[k].cb = "resolved" THEN 1 ELSE 0)
            /\ Issued(k, "ROLLBACK") = (IF tx[k].cb = "resolved" THEN 0 ELSE 1)
            /\ tx[k].cb = "rejected" => tx[k].pc = "threw" /\ tx[k].error = "callback error"
            /\ Issued(k, "release") = 1

Logged(event) == Cardinality({i \in DOMAIN dbQuery.log : dbQuery.log[i] = event})

\* The attempts of the call: the iterations of its loop that reached pool.connect().
Attempts == Logged("connect") + Logged("connect failed")

ConnectionClass(error) ==
    error.code \in {"ECONNREFUSED", "ENOTFOUND", "ETIMEDOUT", "ECONNRESET"} \/ error.connection

\* C30: a finished call of query made at most maxRetries attempts; when it
\* threw, no attempt remained or its last attempt failed with an error that
\* is not of the connection class (a connection-class failure with attempts
\* remaining is followed by a further attempt); when it returned, its last
\* attempt is its only successful one; and it released every connection it
\* acquired exactly once.
C30_RetryOnConnectionErrors ==
    dbQuery.pc \in {"returned", "threw"} =>
        /\ Attempts <= dbQuery.maxRetries
        /\ dbQuery.pc = "threw" =>
              \/ Attempts = dbQuery.maxRetries
              \/ ~ConnectionClass(dbQuery.error)
        /\ dbQuery.pc = "returned" => Logged("query ok") = 1
        /\ Logged("release") = Logged("connect")

====
